---- MODULE Spec2Model ----
(***************************************************************************)
(* A model of bean-go-broker: the BrokerDispatcher (RunTube, RunTubes,     *)
(* RunAllTubes, runBroker, watchNewTubes, Shutdown), the Broker.Run loop   *)
(* of every worker goroutine with its pump goroutine and pacing channel,   *)
(* the pre- and post-execution job policy and the deadline-supervised      *)
(* execution of one job (executeJob).                                      *)
(*                                                                         *)
(* Time is counted in seconds.  The beanstalkd server and the executor     *)
(* process are the environment: their steps are the Server* and Proc*      *)
(* actions.                                                                *)
(***************************************************************************)
EXTENDS Integers, Sequences, FiniteSets, TLC

(***************************************************************************)
(* Program constants.                                                      *)
(***************************************************************************)
ttrMargin == 1

TimeoutTries == 1

ReleaseTries == 10

\* the default of -requeue-delay, one minute
RequeueDelay == 60

(***************************************************************************)
(* Bounds of the model.                                                    *)
(***************************************************************************)
\* -per-tube ranges over 1..MaxPerTube
MaxPerTube == 2

\* Shutdown() is called at most this many times
MaxShutdownCalls == 2

\* job.TimeLeft() answers 0..MaxTTR seconds
MaxTTR == 1

\* the server's release counter of a job is followed up to this value
MaxReleases == 11

\* the server's timeout counter of a job is followed up to this value
MaxTimeouts == 1

\* an executor writes at most this many chunks to its standard output
MaxChunks == 1

Tubes == {"default", "mail"}

\* the order in which list-tubes answers
TubeOrder == <<"default", "mail">>

\* the jobs on the server
JobIds == {1}

VARIABLES
    perTube,        \* BrokerDispatcher.perTube
    hasResults,     \* Broker.results # nil
    ret,            \* BrokerDispatcher.ret: "open" or "closed"
    tubeSet,        \* BrokerDispatcher.tubeSet: the tubes mapped to true
    wg,             \* BrokerDispatcher.WaitGroup's counter
    script,         \* the calls the owner of the dispatcher has still to make
    calls,          \* the goroutines that run dispatcher code: "main", "disc"
    workers,        \* one record per runBroker call: worker, pump, channel
    shutdownCalls,  \* Shutdown() calls made
    shutdownReturns,\* Shutdown() calls that returned
    panicMsg,       \* "none", or what ended the process: a runtime panic,
                    \* "signal" (killed by a signal), "exit" (main returned)
    sigHandler,     \* handleShutdown's goroutine: "none", "armed", "done"
    serverTubes,    \* the tubes the server lists
    jobs,           \* the server's record of every job
    execCount       \* per job, the executor invocations so far

vars == <<perTube, hasResults, ret, tubeSet, wg, script, calls, workers,
          shutdownCalls, shutdownReturns, panicMsg, sigHandler, serverTubes,
          jobs, execCount>>

dispVars == <<perTube, hasResults, ret, tubeSet, wg, script, calls,
              shutdownCalls, shutdownReturns, panicMsg, sigHandler,
              serverTubes>>

Alive == panicMsg = "none"

WorkerIds == 1..Len(workers)

(***************************************************************************)
(* JobResult: the zero value, and the value of a job that was not run.     *)
(* No statement of the package assigns the field Error.                    *)
(***************************************************************************)
NoResult ==
    [made |-> FALSE, Buried |-> FALSE, Executed |-> FALSE, ExitStatus |-> 0,
     TimedOut |-> FALSE, Chunks |-> 0, Error |-> FALSE]

BuriedResult ==
    [made |-> TRUE, Buried |-> TRUE, Executed |-> FALSE, ExitStatus |-> 0,
     TimedOut |-> FALSE, Chunks |-> 0, Error |-> FALSE]

ExecResult ==
    [made |-> TRUE, Buried |-> FALSE, Executed |-> TRUE, ExitStatus |-> 0,
     TimedOut |-> FALSE, Chunks |-> 0, Error |-> FALSE]

\* what one iteration of Run keeps about its job
NoIteration ==
    [job |-> 0, t |-> -1, r |-> -1, hr |-> -1, ops |-> <<>>,
     res |-> NoResult, sent |-> FALSE, handled |-> FALSE,
     ttr |-> 0, deadline |-> 0, clock |-> 0, timer |-> "none",
     proc |-> "none", out |-> "none", chunk |-> FALSE, status |-> 0,
     outAt |-> -1, exitAt |-> -1, terms |-> 0, termAt |-> "none",
     wd |-> <<>>, rerr |-> "none", err |-> "none"]

\* New and the state runBroker creates around it
New(tube, slot) ==
    [tube |-> tube, slot |-> slot, pc |-> "dial",
     ticker |-> "open", pump |-> "loop", end |-> FALSE,
     it |-> NoIteration]

IdleCall == [pc |-> "idle", todo |-> <<>>, tube |-> "", slot |-> 0, wid |-> 0]

(***************************************************************************)
(* The owner of the dispatcher.  It makes the calls of its script one      *)
(* after the other, each a call of RunTubes (RunTube(t) is RunTubes of the *)
(* one tube t) or of RunAllTubes.                                          *)
(***************************************************************************)
CallTubes(ts) == [op |-> "RunTubes", tubes |-> ts]

CallAll == [op |-> "RunAllTubes", tubes |-> <<>>]

Scripts ==
    { <<CallTubes(<<"default">>)>>,
      <<CallTubes(<<"default", "mail">>)>>,
      <<CallTubes(<<"default">>), CallTubes(<<"default">>)>>,
      <<CallAll>>,
      <<CallAll, CallTubes(<<"default">>)>> }

\* the values of -per-tube a script is followed with: several workers per
\* tube for the script of one RunTube call, one for the others
PerTubes(sc) ==
    IF sc = <<CallTubes(<<"default">>)>> THEN 1..MaxPerTube ELSE {1}

\* RunTube's first statement, entered from the loop of RunTubes or of
\* watchNewTubes whose next tube is t
EnterRunTube(c, t) ==
    /\ tubeSet' = tubeSet \cup {t}
    /\ calls' = [calls EXCEPT ![c] =
                    [pc |-> "slots", todo |-> Tail(@.todo), tube |-> t,
                     slot |-> 0, wid |-> 0]]

\* RunTubes is called, and one turn of its loop
CallRunTubes ==
    /\ Alive
    /\ calls["main"].pc = "idle"
    /\ script # <<>>
    /\ Head(script).op = "RunTubes"
    /\ script' = Tail(script)
    /\ calls' = [calls EXCEPT !["main"].pc = "tubes",
                              !["main"].todo = Head(script).tubes]
    /\ UNCHANGED <<perTube, hasResults, ret, tubeSet, wg, workers,
                   shutdownCalls, shutdownReturns, panicMsg, sigHandler,
                   serverTubes, jobs, execCount>>

RunTubes ==
    /\ Alive
    /\ calls["main"].pc = "tubes"
    /\ IF calls["main"].todo = <<>>
       THEN /\ calls' = [calls EXCEPT !["main"] = IdleCall]
            /\ UNCHANGED tubeSet
       ELSE EnterRunTube("main", Head(calls["main"].todo))
    /\ UNCHANGED <<perTube, hasResults, ret, wg, script, workers,
                   shutdownCalls, shutdownReturns, panicMsg, sigHandler,
                   serverTubes, jobs, execCount>>

\* RunAllTubes: dial the discovery connection and start the goroutine
RunAllTubes ==
    /\ Alive
    /\ calls["main"].pc = "idle"
    /\ script # <<>>
    /\ Head(script).op = "RunAllTubes"
    /\ calls["disc"].pc = "off"
    /\ script' = Tail(script)
    /\ \E dialed \in BOOLEAN :
          calls' = IF dialed
                   THEN [calls EXCEPT !["disc"].pc = "ticker"]
                   ELSE calls
    /\ UNCHANGED <<perTube, hasResults, ret, tubeSet, wg, workers,
                   shutdownCalls, shutdownReturns, panicMsg, sigHandler,
                   serverTubes, jobs, execCount>>

\* the tubes list-tubes answers, in the server's order
ListTubes == SelectSeq(TubeOrder, LAMBDA t : t \in serverTubes)

\* the discovery goroutine takes a tick of instantTicker and calls
\* watchNewTubes, whose ListTubes may fail: the error is logged
DiscoveryTick ==
    /\ Alive
    /\ calls["disc"].pc = "ticker"
    /\ \E listed \in BOOLEAN :
          calls' = IF listed
                   THEN [calls EXCEPT !["disc"].pc = "tubes",
                                      !["disc"].todo = ListTubes]
                   ELSE calls
    /\ UNCHANGED <<perTube, hasResults, ret, tubeSet, wg, script, workers,
                   shutdownCalls, shutdownReturns, panicMsg, sigHandler,
                   serverTubes, jobs, execCount>>

\* one turn of the loop of watchNewTubes
watchNewTubes ==
    /\ Alive
    /\ calls["disc"].pc = "tubes"
    /\ IF calls["disc"].todo = <<>>
       THEN /\ calls' = [calls EXCEPT !["disc"] = [IdleCall EXCEPT !.pc = "ticker"]]
            /\ UNCHANGED tubeSet
       ELSE IF Head(calls["disc"].todo) \notin tubeSet
            THEN EnterRunTube("disc", Head(calls["disc"].todo))
            ELSE /\ calls' = [calls EXCEPT !["disc"].todo = Tail(@)]
                 /\ UNCHANGED tubeSet
    /\ UNCHANGED <<perTube, hasResults, ret, wg, script, workers,
                   shutdownCalls, shutdownReturns, panicMsg, sigHandler,
                   serverTubes, jobs, execCount>>

\* one turn of the loop of RunTube: runBroker up to its wait on bd.ret
\* (the channel is made, the group is added to, the worker goroutine and
\* the pump goroutine are started), or the return after the last slot
RunTube(c) ==
    /\ Alive
    /\ calls[c].pc = "slots"
    /\ IF calls[c].slot < perTube
       THEN /\ workers' = Append(workers, New(calls[c].tube, calls[c].slot))
            /\ wg' = wg + 1
            /\ calls' = [calls EXCEPT ![c].pc = "ret",
                                      ![c].wid = Len(workers) + 1]
       ELSE /\ calls' = [calls EXCEPT ![c].pc = "tubes"]
            /\ UNCHANGED <<workers, wg>>
    /\ UNCHANGED <<perTube, hasResults, ret, tubeSet, script, shutdownCalls,
                   shutdownReturns, panicMsg, sigHandler, serverTubes, jobs,
                   execCount>>

\* runBroker from <-bd.ret on: end = true, close(ticker), and the return
\* to RunTube's loop.  The pump alone reads end, and PumpReturn stays
\* enabled after the close, so taking the three statements in one step
\* leaves out no state of the other goroutines.
runBrokerWait(c) ==
    /\ Alive
    /\ calls[c].pc = "ret"
    /\ ret = "closed"
    /\ workers' = [workers EXCEPT ![calls[c].wid].end = TRUE,
                                  ![calls[c].wid].ticker = "closed"]
    /\ calls' = [calls EXCEPT ![c].pc = "slots", ![c].slot = @ + 1]
    /\ UNCHANGED <<perTube, hasResults, ret, tubeSet, wg, script,
                   shutdownCalls, shutdownReturns, panicMsg, sigHandler,
                   serverTubes, jobs, execCount>>

\* a panic that no goroutine recovers ends the process: its goroutines and
\* what they held in memory are gone
Crash(msg) ==
    /\ panicMsg' = msg
    /\ ret' = "open"
    /\ tubeSet' = {}
    /\ wg' = 0
    /\ script' = <<>>
    /\ calls' = [c \in {"main", "disc"} |-> [IdleCall EXCEPT !.pc = "off"]]
    /\ workers' = <<>>
    /\ sigHandler' = "none"

\* the body of Shutdown: close(bd.ret); closing a closed channel panics.
\* h is the state of handleShutdown's goroutine after the call.
CloseRet(h) ==
    /\ shutdownCalls' = shutdownCalls + 1
    /\ IF ret = "open"
       THEN /\ ret' = "closed"
            /\ shutdownReturns' = shutdownReturns + 1
            /\ sigHandler' = h
            /\ UNCHANGED <<panicMsg, tubeSet, wg, script, calls, workers>>
       ELSE /\ Crash("close of closed channel")
            /\ UNCHANGED shutdownReturns
    /\ UNCHANGED <<perTube, hasResults, serverTubes, jobs, execCount>>

\* Shutdown, called by the owner of the dispatcher
Shutdown ==
    /\ Alive
    /\ shutdownCalls < MaxShutdownCalls
    /\ CloseRet(sigHandler)

(***************************************************************************)
(* main after its call of RunTubes or RunAllTubes has returned:            *)
(* handleShutdown(bd.Shutdown) and bd.Wait().  A termination signal is     *)
(* taken to arrive when main has come to rest, in runBroker's <-bd.ret or  *)
(* in Wait.  A signal nobody was registered for kills the process; one     *)
(* that arrives after the goroutine of handleShutdown has ended is         *)
(* dropped, which changes nothing.                                         *)
(***************************************************************************)
\* signal.Notify and the goroutine that waits for the signal
handleShutdown ==
    /\ Alive
    /\ calls["main"].pc = "idle"
    /\ script = <<>>
    /\ calls' = [calls EXCEPT !["main"].pc = "Wait"]
    /\ sigHandler' = "armed"
    /\ UNCHANGED <<perTube, hasResults, ret, tubeSet, wg, script, workers,
                   shutdownCalls, shutdownReturns, panicMsg, serverTubes,
                   jobs, execCount>>

\* bd.Wait() returns when the counter is zero, main returns and the
\* process exits
Wait ==
    /\ Alive
    /\ calls["main"].pc = "Wait"
    /\ wg = 0
    /\ Crash("exit")
    /\ UNCHANGED <<perTube, hasResults, shutdownCalls, shutdownReturns,
                   serverTubes, jobs, execCount>>

\* SIGINT, SIGTERM or SIGQUIT is sent to the process
Signal ==
    /\ Alive
    /\ calls["main"].pc \in {"ret", "Wait"}
    /\ sigHandler # "done"
    /\ IF sigHandler = "armed"
       THEN CloseRet("done")
       ELSE /\ Crash("signal")
            /\ UNCHANGED <<perTube, hasResults, shutdownCalls,
                           shutdownReturns, serverTubes, jobs, execCount>>

(***************************************************************************)
(* The pump goroutine of runBroker: for { if end { return }; ticker <- true }*)
(* The pump is "loop" while it runs: its test of end and its send are taken*)
(* together with what ends the send (the worker's receive, in WorkerTick,  *)
(* or the panic).  It reads end without synchronisation, so the test may   *)
(* answer false after runBroker has set end: the send can follow even then.*)
(***************************************************************************)
\* the test of end answers true: the pump returns
PumpReturn(w) ==
    /\ Alive
    /\ workers[w].pump = "loop"
    /\ workers[w].end
    /\ workers' = [workers EXCEPT ![w].pump = "done"]
    /\ UNCHANGED <<dispVars, jobs, execCount>>

\* a send on a closed channel panics, also when the sender was already
\* blocked in the send when the channel was closed
PumpPanic(w) ==
    /\ Alive
    /\ workers[w].pump = "loop"
    /\ workers[w].ticker = "closed"
    /\ Crash("send on closed channel")
    /\ UNCHANGED <<perTube, hasResults, shutdownCalls, shutdownReturns,
                   serverTubes, jobs, execCount>>

\* the server creates a tube
ServerCreateTube(t) ==
    /\ Alive
    /\ t \notin serverTubes
    /\ serverTubes' = serverTubes \cup {t}
    /\ UNCHANGED <<perTube, hasResults, ret, tubeSet, wg, script, calls,
                   workers, shutdownCalls, shutdownReturns, panicMsg,
                   sigHandler, jobs, execCount>>

(***************************************************************************)
(* Broker.Run.                                                             *)
(***************************************************************************)
\* fin() and the return of Run
Stopped(w, ws) == [ws EXCEPT ![w].pc = "stopped"]

\* Run logs the error of the call named e and returns
Failed(w, ws, e) == [Stopped(w, ws) EXCEPT ![w].it.err = e]

\* beanstalk.Dial; on an error Run returns
WorkerDial(w) ==
    /\ Alive
    /\ workers[w].pc = "dial"
    /\ \E dialed \in BOOLEAN :
          IF dialed
          THEN /\ workers' = [workers EXCEPT ![w].pc = "tick"]
               /\ UNCHANGED wg
          ELSE /\ workers' = Stopped(w, workers)
               /\ wg' = wg - 1
    /\ UNCHANGED <<perTube, hasResults, ret, tubeSet, script, calls,
                   shutdownCalls, shutdownReturns, panicMsg, sigHandler,
                   serverTubes, jobs, execCount>>

\* <-ticks meets the pump's send: a new iteration
WorkerTick(w) ==
    /\ Alive
    /\ workers[w].pc = "tick"
    /\ workers[w].ticker = "open"
    /\ workers[w].pump = "loop"
    /\ workers' = [workers EXCEPT ![w].pc = "reserve", ![w].it = NoIteration]
    /\ UNCHANGED <<dispVars, jobs, execCount>>

\* <-ticks on the closed channel: Run returns
WorkerTickClosed(w) ==
    /\ Alive
    /\ workers[w].pc = "tick"
    /\ workers[w].ticker = "closed"
    /\ workers' = Stopped(w, [workers EXCEPT ![w].it = NoIteration])
    /\ wg' = wg - 1
    /\ UNCHANGED <<perTube, hasResults, ret, tubeSet, script, calls,
                   shutdownCalls, shutdownReturns, panicMsg, sigHandler,
                   serverTubes, jobs, execCount>>

(***************************************************************************)
(* The job's payload and getJobWD.  A payload is described by what         *)
(* phpserialize.Decode makes of it: "garbage" does not decode, "scalar"    *)
(* decodes to something that is no map, "map" decodes to a map whose       *)
(* "domain" entry is absent ("none"), no string ("number") or the string   *)
(* val.                                                                    *)
(***************************************************************************)
Payload(kind, domain, val) == [kind |-> kind, domain |-> domain, val |-> val]

Bodies ==
    { Payload("map", "string", "acme"),
      Payload("map", "string", "Cluster"),
      Payload("map", "string", "cluster"),
      Payload("map", "number", ""),
      Payload("map", "none", ""),
      Payload("scalar", "none", ""),
      Payload("garbage", "none", "") }

\* strings.ToLower on the domain values of Bodies
ToLower(str) ==
    CASE str = "Cluster" -> "cluster"
      [] OTHER -> str

\* findDomain: the domain and whether an error is returned
findDomain(body) ==
    IF body.domain = "string"
    THEN [err |-> FALSE, domain |-> body.val]
    ELSE [err |-> TRUE, domain |-> ""]

\* variant: the domain is compared as it is written
getJobWDCaseSensitive(body) ==
    IF body.kind # "map"
    THEN [err |-> TRUE, wd |-> <<>>]
    ELSE IF findDomain(body).err
         THEN [err |-> TRUE, wd |-> <<>>]
         ELSE IF findDomain(body).domain = "cluster"
              THEN [err |-> FALSE, wd |-> <<"ClusterRoot", "worker">>]
              ELSE [err |-> FALSE,
                    wd |-> <<"InstanceRoot", findDomain(body).domain, "worker">>]

\* getJobWD: the working directory as its path elements
getJobWD(body) ==
    IF body.kind # "map"
    THEN [err |-> TRUE, wd |-> <<>>]
    ELSE IF findDomain(body).err
         THEN [err |-> TRUE, wd |-> <<>>]
         ELSE IF ToLower(findDomain(body).domain) = "cluster"
              THEN [err |-> FALSE, wd |-> <<"ClusterRoot", "worker">>]
              ELSE [err |-> FALSE,
                    wd |-> <<"InstanceRoot", findDomain(body).domain, "worker">>]

(***************************************************************************)
(* The job operations of package bs on the beanstalkd server.              *)
(***************************************************************************)
\* release answers NOT_FOUND unless the job is reserved by the caller
CanRelease(w, j) ==
    /\ jobs[j].state = "reserved"
    /\ jobs[j].owner = w

\* delete works on a job the caller has reserved and on one that is ready
\* or delayed
CanDelete(w, j) ==
    \/ CanRelease(w, j)
    \/ jobs[j].state \in {"ready", "delayed"}

\* the server's job record after release with the delay
Released(j, delay) ==
    [jobs EXCEPT ![j].state = IF delay = 0 THEN "ready" ELSE "delayed",
                 ![j].owner = 0,
                 ![j].releases = @ + 1]

Deleted(j) == [jobs EXCEPT ![j].state = "deleted", ![j].owner = 0]

\* stats-job answers NOT_FOUND for a deleted job
CanStat(j) == jobs[j].state # "deleted"

QueueOp(op, delay) == [op |-> op, delay |-> delay]

(***************************************************************************)
(* The policy of Run and handleResult.                                     *)
(***************************************************************************)
\* Variants of the policy that differ from the code in one place each; the
\* properties of the worker are tried against them.
TimeoutsExhaustedLate(t) == t > TimeoutTries

ReleasesExhaustedLate(r) == r > ReleaseTries

BackoffDelayCubed(r) == r * r * r

TimerDurationNoMargin(ttr) == ttr

\* Run: t >= TimeoutTries
TimeoutsExhausted(t) == t >= TimeoutTries

\* Run: releases >= ReleaseTries
ReleasesExhausted(r) == r >= ReleaseTries

\* handleResult: the delay in seconds of a release after r releases
BackoffDelay(r) == r * r * r * r

\* variant: a failed query counts as no release
DelayBaseZero(answer) == IF answer < 0 THEN 0 ELSE answer

\* handleResult: the count the delay is computed from, given the answer of
\* job.Releases() (-1: the query failed)
DelayBase(answer) == IF answer < 0 THEN ReleaseTries ELSE answer

\* variant: the exit status is looked at although the result is TimedOut
handleResultActingOnTimeout(res, answer) ==
    IF res.ExitStatus = 0
    THEN QueueOp("delete", 0)
    ELSE QueueOp("release", BackoffDelay(DelayBase(answer)))

\* variant: a job is released whatever its exit status
handleResultAlwaysReleasing(res, answer) ==
    IF res.TimedOut
    THEN QueueOp("none", 0)
    ELSE QueueOp("release", BackoffDelay(DelayBase(answer)))

\* handleResult: the queue operation for a result, given the answer of
\* job.Releases()
handleResult(res, answer) ==
    IF res.TimedOut
    THEN QueueOp("none", 0)
    ELSE IF res.ExitStatus = 0
         THEN QueueOp("delete", 0)
         ELSE QueueOp("release", BackoffDelay(DelayBase(answer)))

\* executeJob: the duration of the timer
TimerDuration(ttr) == ttr + ttrMargin

\* the model follows the clock of an execution one second past the deadline
ClockCap(ttr) == ttr + ttrMargin + 1

(***************************************************************************)
(* Broker.Run, one iteration.                                              *)
(***************************************************************************)
InTube(w) == { j \in JobIds : jobs[j].tube = workers[w].tube /\ jobs[j].state = "ready" }

\* bs.MustReserveWithoutTimeout returns a job
WorkerReserve(w, j) ==
    /\ Alive
    /\ workers[w].pc = "reserve"
    /\ j \in InTube(w)
    /\ jobs' = [jobs EXCEPT ![j].state = "reserved", ![j].owner = w]
    /\ workers' = [workers EXCEPT ![w].pc = "timeouts",
                                  ![w].it = [NoIteration EXCEPT !.job = j]]
    /\ UNCHANGED <<dispVars, execCount>>

\* bs.MustReserveWithoutTimeout, Reserve answers ErrTimeout: continue
WorkerReserveTimeout(w) ==
    /\ Alive
    /\ workers[w].pc = "reserve"
    /\ workers' = [workers EXCEPT ![w].it.rerr = "timeout"]
    /\ UNCHANGED <<dispVars, jobs, execCount>>

\* bs.MustReserveWithoutTimeout, Reserve answers ErrDeadline:
\* time.Sleep(DeadlineSoonDelay)
WorkerReserveDeadline(w) ==
    /\ Alive
    /\ workers[w].pc = "reserve"
    /\ workers' = [workers EXCEPT ![w].pc = "sleep",
                                  ![w].it.rerr = "deadline"]
    /\ UNCHANGED <<dispVars, jobs, execCount>>

\* the sleep ends: continue
WorkerReserveWake(w) ==
    /\ Alive
    /\ workers[w].pc = "sleep"
    /\ workers' = [workers EXCEPT ![w].pc = "reserve"]
    /\ UNCHANGED <<dispVars, jobs, execCount>>

\* bs.MustReserveWithoutTimeout, Reserve answers another error:
\* log.Error(err) and continue
WorkerReserveError(w) ==
    /\ Alive
    /\ workers[w].pc = "reserve"
    /\ workers' = [workers EXCEPT ![w].it.rerr = "other"]
    /\ UNCHANGED <<dispVars, jobs, execCount>>

\* job.Timeouts() and the test of its answer
WorkerTimeouts(w) ==
    /\ Alive
    /\ workers[w].pc = "timeouts"
    /\ LET j == workers[w].it.job IN
       \E answered \in (IF CanStat(j) THEN BOOLEAN ELSE {FALSE}) :
          IF answered
          THEN /\ workers' = [workers EXCEPT
                     ![w].it.t = jobs[j].timeouts,
                     ![w].pc = IF TimeoutsExhausted(jobs[j].timeouts)
                               THEN "bury" ELSE "releases"]
               /\ UNCHANGED wg
          ELSE /\ workers' = Failed(w, workers, "Timeouts")
               /\ wg' = wg - 1
    /\ UNCHANGED <<perTube, hasResults, ret, tubeSet, script, calls,
                   shutdownCalls, shutdownReturns, panicMsg, sigHandler,
                   serverTubes, jobs, execCount>>

\* job.Releases() and the test of its answer
WorkerReleases(w) ==
    /\ Alive
    /\ workers[w].pc = "releases"
    /\ LET j == workers[w].it.job IN
       \E answered \in (IF CanStat(j) THEN BOOLEAN ELSE {FALSE}) :
          IF answered
          THEN /\ workers' = [workers EXCEPT
                     ![w].it.r = jobs[j].releases,
                     ![w].pc = IF ReleasesExhausted(jobs[j].releases)
                               THEN "bury" ELSE "getwd"]
               /\ UNCHANGED wg
          ELSE /\ workers' = Failed(w, workers, "Releases")
               /\ wg' = wg - 1
    /\ UNCHANGED <<perTube, hasResults, ret, tubeSet, script, calls,
                   shutdownCalls, shutdownReturns, panicMsg, sigHandler,
                   serverTubes, jobs, execCount>>

\* job.Release(b.options.RequeueDelay) of an exhausted job, the JobResult
\* sent when there is a results channel, and continue
WorkerBury(w) ==
    /\ Alive
    /\ workers[w].pc = "bury"
    /\ LET j == workers[w].it.job IN
       \E sent \in BOOLEAN :
          LET done == sent /\ CanRelease(w, j) /\ jobs[j].releases < MaxReleases IN
          /\ sent /\ CanRelease(w, j) => jobs[j].releases < MaxReleases
          /\ jobs' = IF done THEN Released(j, RequeueDelay) ELSE jobs
          /\ workers' = [workers EXCEPT
                ![w].pc = "tick",
                ![w].it.ops = Append(@, QueueOp("release", RequeueDelay)),
                ![w].it.res = IF done /\ hasResults THEN BuriedResult ELSE @,
                ![w].it.sent = done /\ hasResults]
    /\ UNCHANGED <<dispVars, execCount>>

\* getJobWD; on an error Run returns
WorkerGetWD(w) ==
    /\ Alive
    /\ workers[w].pc = "getwd"
    /\ IF getJobWD(jobs[workers[w].it.job].body).err
       THEN /\ workers' = Failed(w, workers, "getJobWD")
            /\ wg' = wg - 1
       ELSE /\ workers' = [workers EXCEPT
                  ![w].pc = "exec",
                  ![w].it.wd = getJobWD(jobs[workers[w].it.job].body).wd]
            /\ UNCHANGED wg
    /\ UNCHANGED <<perTube, hasResults, ret, tubeSet, script, calls,
                   shutdownCalls, shutdownReturns, panicMsg, sigHandler,
                   serverTubes, jobs, execCount>>

(***************************************************************************)
(* executeJob.  The clock of an execution counts the seconds since the     *)
(* timer was made.  The goroutine blocked in a select takes a ready case   *)
(* within the second in which it became ready: the clock does not advance  *)
(* while a case of the select is ready.  Events of the same second are     *)
(* simultaneous, and the select chooses among its ready cases.             *)
(***************************************************************************)
\* job.TimeLeft, time.NewTimer, cmd.NewCommand and cmd.StartWithStdin
executeJobStart(w) ==
    /\ Alive
    /\ workers[w].pc = "exec"
    /\ LET j == workers[w].it.job IN
       \E started \in BOOLEAN, ttr \in 0..MaxTTR :
          IF started
          THEN /\ workers' = [workers EXCEPT
                     ![w].pc = "drain",
                     ![w].it.res = ExecResult,
                     ![w].it.ttr = ttr,
                     ![w].it.deadline = TimerDuration(ttr),
                     ![w].it.timer = "armed",
                     ![w].it.proc = "running",
                     ![w].it.out = "open"]
               /\ execCount' = [execCount EXCEPT ![j] = @ + 1]
               /\ UNCHANGED wg
          ELSE /\ ttr = 0
               /\ workers' = Failed(w, [workers EXCEPT ![w].it.res = ExecResult],
                                    "executeJob")
               /\ wg' = wg - 1
               /\ UNCHANGED execCount
    /\ UNCHANGED <<perTube, hasResults, ret, tubeSet, script, calls,
                   shutdownCalls, shutdownReturns, panicMsg, sigHandler,
                   serverTubes, jobs>>

\* stdoutReader, case <-timer.C: cmd.Terminate(); on its error executeJob
\* and Run return
executeJobDrainTimer(w) ==
    /\ Alive
    /\ workers[w].pc = "drain"
    /\ workers[w].it.timer = "fired"
    /\ \E terminated \in BOOLEAN :
          IF terminated
          THEN /\ workers' = [workers EXCEPT
                     ![w].it.timer = "read",
                     ![w].it.terms = @ + 1,
                     ![w].it.termAt = "drain",
                     ![w].it.res.TimedOut = TRUE]
               /\ UNCHANGED wg
          ELSE /\ workers' = Failed(w, [workers EXCEPT ![w].it.timer = "read"],
                                    "executeJob")
               /\ wg' = wg - 1
    /\ UNCHANGED <<perTube, hasResults, ret, tubeSet, script, calls,
                   shutdownCalls, shutdownReturns, panicMsg, sigHandler,
                   serverTubes, jobs, execCount>>

\* stdoutReader, case data, ok := <-out with ok
executeJobDrainData(w) ==
    /\ Alive
    /\ workers[w].pc = "drain"
    /\ workers[w].it.chunk
    /\ workers' = [workers EXCEPT ![w].it.chunk = FALSE,
                                  ![w].it.res.Chunks = @ + 1]
    /\ UNCHANGED <<dispVars, jobs, execCount>>

\* stdoutReader, case data, ok := <-out with !ok: break
executeJobDrainClosed(w) ==
    /\ Alive
    /\ workers[w].pc = "drain"
    /\ workers[w].it.out = "closed"
    /\ workers' = [workers EXCEPT ![w].pc = "wait"]
    /\ UNCHANGED <<dispVars, jobs, execCount>>

\* waitLoop, case wr := <-waitC: timer.Stop(), the exit status, and the
\* return to Run without an error
executeJobWaitExit(w) ==
    /\ Alive
    /\ workers[w].pc = "wait"
    /\ workers[w].it.proc = "exited"
    /\ workers' = [workers EXCEPT
          ![w].pc = "handle",
          ![w].it.timer = IF @ = "armed" THEN "stopped" ELSE @,
          ![w].it.res.ExitStatus = workers[w].it.status]
    /\ UNCHANGED <<dispVars, jobs, execCount>>

\* waitLoop, case <-timer.C: cmd.Terminate(), its error dropped
executeJobWaitTimer(w) ==
    /\ Alive
    /\ workers[w].pc = "wait"
    /\ workers[w].it.timer = "fired"
    /\ workers' = [workers EXCEPT
          ![w].it.timer = "read",
          ![w].it.terms = @ + 1,
          ![w].it.termAt = "wait",
          ![w].it.res.TimedOut = TRUE]
    /\ UNCHANGED <<dispVars, jobs, execCount>>

Executing(w) == workers[w].pc \in {"drain", "wait"}

\* a case of the select the goroutine is blocked in is ready
SelectReady(w) ==
    \/ workers[w].it.timer = "fired"
    \/ workers[w].pc = "drain" /\ (workers[w].it.chunk \/ workers[w].it.out = "closed")
    \/ workers[w].pc = "wait" /\ workers[w].it.proc = "exited"

\* the timer sends on timer.C when its duration has passed
TimerFire(w) ==
    /\ Alive
    /\ Executing(w)
    /\ workers[w].it.timer = "armed"
    /\ workers[w].it.clock >= workers[w].it.deadline
    /\ workers' = [workers EXCEPT ![w].it.timer = "fired"]
    /\ UNCHANGED <<dispVars, jobs, execCount>>

\* a second passes
Tick(w) ==
    /\ Alive
    /\ Executing(w)
    /\ workers[w].it.clock < ClockCap(workers[w].it.ttr)
    /\ ~(workers[w].it.timer = "armed" /\ workers[w].it.clock >= workers[w].it.deadline)
    /\ ~SelectReady(w)
    /\ workers' = [workers EXCEPT ![w].it.clock = @ + 1]
    /\ UNCHANGED <<dispVars, jobs, execCount>>

(***************************************************************************)
(* The executor process, as package cmd shows it: chunks of its standard   *)
(* output on the channel out, the close of out, and its exit status on     *)
(* WaitChan.  A terminated process exits like any other, with any status.  *)
(***************************************************************************)
ProcOutput(w) ==
    /\ Alive
    /\ Executing(w)
    /\ workers[w].it.proc = "running"
    /\ workers[w].it.out = "open"
    /\ ~workers[w].it.chunk
    /\ workers[w].it.res.Chunks < MaxChunks
    /\ workers' = [workers EXCEPT ![w].it.chunk = TRUE]
    /\ UNCHANGED <<dispVars, jobs, execCount>>

ProcCloseOut(w) ==
    /\ Alive
    /\ Executing(w)
    /\ workers[w].it.out = "open"
    /\ ~workers[w].it.chunk
    /\ workers' = [workers EXCEPT ![w].it.out = "closed",
                                  ![w].it.outAt = workers[w].it.clock]
    /\ UNCHANGED <<dispVars, jobs, execCount>>

ProcExit(w, status) ==
    /\ Alive
    /\ Executing(w)
    /\ workers[w].it.proc = "running"
    /\ workers' = [workers EXCEPT ![w].it.proc = "exited",
                                  ![w].it.status = status,
                                  ![w].it.exitAt = workers[w].it.clock]
    /\ UNCHANGED <<dispVars, jobs, execCount>>

(***************************************************************************)
(* Run after executeJob: handleResult, whose error ends Run, and the send  *)
(* of the result.  In handleResult's default case err is declared anew, so *)
(* the error of job.Release is not the one returned.                       *)
(***************************************************************************)
\* what is left of an iteration when the variables of executeJob are gone
Returned(it) ==
    [NoIteration EXCEPT !.job = it.job, !.t = it.t, !.r = it.r,
                        !.ops = it.ops, !.res = it.res, !.wd = it.wd]

WorkerHandle(w) ==
    /\ Alive
    /\ workers[w].pc = "handle"
    /\ LET j == workers[w].it.job
           res == workers[w].it.res IN
       \E answer \in (IF CanStat(j) THEN {-1, jobs[j].releases} ELSE {-1}),
          sent \in BOOLEAN :
          LET op == handleResult(res, answer)
              asked == ~res.TimedOut /\ res.ExitStatus # 0
              done == /\ sent
                      /\ IF op.op = "release" THEN CanRelease(w, j) ELSE CanDelete(w, j)
              failed == op.op = "delete" /\ ~done IN
          /\ ~asked => answer = -1
          /\ op.op = "none" => sent
          /\ op.op = "release" /\ done => jobs[j].releases < MaxReleases
          /\ jobs' = CASE op.op = "release" /\ done -> Released(j, op.delay)
                       [] op.op = "delete" /\ done -> Deleted(j)
                       [] OTHER -> jobs
          /\ workers' = [workers EXCEPT
                ![w].pc = IF failed THEN "stopped" ELSE "tick",
                ![w].it = [Returned(@) EXCEPT
                              !.hr = IF asked THEN answer ELSE @,
                              !.handled = TRUE,
                              !.err = IF failed THEN "handleResult" ELSE @,
                              !.ops = IF op.op = "none" THEN @ ELSE Append(@, op),
                              !.sent = ~failed /\ hasResults]]
          /\ wg' = IF failed THEN wg - 1 ELSE wg
    /\ UNCHANGED <<perTube, hasResults, ret, tubeSet, script, calls,
                   shutdownCalls, shutdownReturns, panicMsg, sigHandler,
                   serverTubes, execCount>>

(***************************************************************************)
(* The server's own steps on a job.                                        *)
(***************************************************************************)
\* the time to run of a reserved job ends: the job is ready again and its
\* timeouts are counted up.  While its worker executes it this is not
\* before the time left that the worker was told has passed.
ServerTTRExpire(j) ==
    /\ Alive
    /\ jobs[j].state = "reserved"
    /\ jobs[j].timeouts < MaxTimeouts
    /\ LET w == jobs[j].owner IN
       Executing(w) => workers[w].it.clock >= workers[w].it.ttr
    /\ jobs' = [jobs EXCEPT ![j].state = "ready", ![j].owner = 0,
                            ![j].timeouts = @ + 1]
    /\ UNCHANGED <<dispVars, workers, execCount>>

\* the delay of a released job ends
ServerDelayElapsed(j) ==
    /\ Alive
    /\ jobs[j].state = "delayed"
    /\ jobs' = [jobs EXCEPT ![j].state = "ready"]
    /\ UNCHANGED <<dispVars, workers, execCount>>

(***************************************************************************)
(* The specifications.                                                     *)
(***************************************************************************)
\* a ready job that has timed out t times and was released r times before
Job(tube, body, t, r) ==
    [tube |-> tube, state |-> "ready", owner |-> 0, timeouts |-> t,
     releases |-> r, body |-> body]

NewJob(tube, body) == Job(tube, body, 0, 0)

\* a dispatcher as NewBrokerDispatcher returns it, its owner about to make
\* the calls of a script, the server holding in the tube default a job that
\* has timed out before
Init ==
    /\ script \in Scripts
    /\ perTube \in PerTubes(script)
    /\ hasResults = FALSE
    /\ ret = "open"
    /\ tubeSet = {}
    /\ wg = 0
    /\ calls = [c \in {"main", "disc"} |->
                  IF c = "main" THEN IdleCall ELSE [IdleCall EXCEPT !.pc = "off"]]
    /\ workers = <<>>
    /\ shutdownCalls = 0
    /\ shutdownReturns = 0
    /\ panicMsg = "none"
    /\ sigHandler = "none"
    /\ serverTubes = {"default"}
    /\ jobs = [j \in JobIds |->
                 Job("default", Payload("map", "string", "acme"), MaxTimeouts, MaxReleases - 1)]
    /\ execCount = [j \in JobIds |-> 0]

\* the steps of the dispatcher, of its owner and of the pumps
DispatcherStep ==
    \/ CallRunTubes
    \/ RunTubes
    \/ RunAllTubes
    \/ DiscoveryTick
    \/ watchNewTubes
    \/ \E c \in {"main", "disc"} : RunTube(c)
    \/ \E c \in {"main", "disc"} : runBrokerWait(c)
    \/ Shutdown
    \/ handleShutdown
    \/ Wait
    \/ Signal
    \/ \E t \in Tubes : ServerCreateTube(t)
    \/ \E w \in WorkerIds : PumpReturn(w)
    \/ \E w \in WorkerIds : PumpPanic(w)
    \/ \E w \in WorkerIds : WorkerTickClosed(w)

\* the steps of Run up to the release of a job that has timed out before
PacedStep ==
    \/ \E w \in WorkerIds : WorkerDial(w)
    \/ \E w \in WorkerIds : WorkerTick(w)
    \/ \E w \in WorkerIds, j \in JobIds : WorkerReserve(w, j)
    \/ \E w \in WorkerIds : WorkerTimeouts(w)
    \/ \E w \in WorkerIds : WorkerBury(w)
    \/ \E j \in JobIds : ServerDelayElapsed(j)

\* the other steps of Run, of the executor and of the server
JobStep ==
    \/ \E w \in WorkerIds : WorkerReserveTimeout(w)
    \/ \E w \in WorkerIds : WorkerReserveDeadline(w)
    \/ \E w \in WorkerIds : WorkerReserveWake(w)
    \/ \E w \in WorkerIds : WorkerReserveError(w)
    \/ \E w \in WorkerIds : WorkerReleases(w)
    \/ \E w \in WorkerIds : WorkerGetWD(w)
    \/ \E w \in WorkerIds : executeJobStart(w)
    \/ \E w \in WorkerIds : executeJobDrainTimer(w)
    \/ \E w \in WorkerIds : executeJobDrainData(w)
    \/ \E w \in WorkerIds : executeJobDrainClosed(w)
    \/ \E w \in WorkerIds : executeJobWaitExit(w)
    \/ \E w \in WorkerIds : executeJobWaitTimer(w)
    \/ \E w \in WorkerIds : TimerFire(w)
    \/ \E w \in WorkerIds : Tick(w)
    \/ \E w \in WorkerIds : ProcOutput(w)
    \/ \E w \in WorkerIds : ProcCloseOut(w)
    \/ \E w \in WorkerIds, status \in {0, 1} : ProcExit(w, status)
    \/ \E w \in WorkerIds : WorkerHandle(w)
    \/ \E j \in JobIds : ServerTTRExpire(j)

\* The job of Init has timed out before, so that Run never goes beyond its
\* test of the timeouts: the steps of JobStep are never enabled.
Next == DispatcherStep \/ PacedStep

Spec == Init /\ [][Next]_vars

\* one worker of the tube default as RunTube has started it, with or
\* without a results channel, no Shutdown called; the jobs of the tube
\* carry any payload
InitWorker ==
    /\ perTube = 1
    /\ hasResults \in BOOLEAN
    /\ ret = "open"
    /\ tubeSet = {"default"}
    /\ wg = 1
    /\ script = <<>>
    /\ calls = [c \in {"main", "disc"} |->
                  IF c = "main"
                  THEN [pc |-> "ret", todo |-> <<>>, tube |-> "default",
                        slot |-> 0, wid |-> 1]
                  ELSE [IdleCall EXCEPT !.pc = "off"]]
    /\ workers = <<New("default", 0)>>
    /\ shutdownCalls = 0
    /\ shutdownReturns = 0
    /\ panicMsg = "none"
    /\ sigHandler = "none"
    /\ serverTubes = {"default"}
    /\ jobs \in [JobIds -> {NewJob("default", b) : b \in Bodies}]
    /\ execCount = [j \in JobIds |-> 0]

WorkerNext == PacedStep \/ JobStep

SpecWorker == InitWorker /\ [][WorkerNext]_vars

(***************************************************************************)
(* The dispatcher's claims, under Spec.                                    *)
(***************************************************************************)
\* the workers started so far for a tube
Started(t) == Cardinality({ w \in WorkerIds : workers[w].tube = t })

\* a goroutine in RunTube waits for the shutdown signal, which nobody sent
WaitsForShutdown(c) ==
    /\ calls[c].pc = "ret"
    /\ ret = "open"

\* C1: RunTube(t) with perTube = N starts its N workers, and RunTubes the
\* workers of every listed tube, without needing a shutdown signal: a call
\* that waits for the signal has started all of them.
C1_StartsWithoutShutdown ==
    \A c \in {"main", "disc"} :
       WaitsForShutdown(c) =>
          /\ Started(calls[c].tube) >= perTube
          /\ calls[c].todo = <<>>

\* C2: watching a tube is idempotent: however often RunTube(name) is
\* called, and whatever discovery does, perTube workers are started for
\* the tube in total.
C2_WatchIdempotent ==
    \A t \in Tubes : Started(t) <= perTube

\* C3: once Shutdown() has returned no worker is in or entering Reserving
\* and every started worker has reported completion: the WaitGroup's
\* counter is zero.
C3_ShutdownWaits ==
    (Alive /\ shutdownReturns >= 1) =>
       /\ wg = 0
       /\ \A w \in WorkerIds : workers[w].pc # "reserve"

\* C4: a second call of Shutdown() neither panics nor deadlocks: every
\* call made has returned.
C4_SecondShutdownReturns ==
    shutdownReturns = shutdownCalls

\* C12: in both startup modes a termination signal received after startup
\* triggers the dispatcher's Shutdown(): the signal never ends the process
\* by itself.
C12_SignalTriggersShutdown ==
    panicMsg # "signal"

\* C16: in all-tubes mode the discovery loop goes from tick to tick and
\* gives every tube the server lists its workers without a shutdown having
\* been signalled: it never waits for the shutdown signal while a listed
\* tube is without its workers.
C16_DiscoveryWatchesEveryTube ==
    WaitsForShutdown("disc") =>
       \A t \in serverTubes : Started(t) >= perTube

\* C19: the pump never sends, and is never blocked in a send, on a pacing
\* channel at or after the moment the channel is closed: closing the
\* channel on shutdown cannot crash the process.
C19_PumpNeverSendsOnClosed ==
    panicMsg # "send on closed channel"

\* C20: the process does not exit while no shutdown has been requested:
\* main's Wait() cannot return with a zero counter before any worker was
\* started.
C20_NoExitBeforeShutdown ==
    panicMsg = "exit" => shutdownCalls >= 1

(***************************************************************************)
(* The worker's claims, under SpecWorker.                                  *)
(***************************************************************************)
\* the counts Run has read tell it to give the job up
GivenUp(it) ==
    \/ it.t >= 1
    \/ it.t = 0 /\ it.r >= 10

C6_DeleteOnExitZero ==
    \A w \in WorkerIds :
       LET it == workers[w].it IN
       (it.handled /\ it.t = 0 /\ it.r \in 0..9 /\ it.res.ExitStatus = 0) =>
          it.ops = <<QueueOp("delete", 0)>>

\* C6, amended: the same for an execution that is not flagged TimedOut.
C6_DeleteOnExitZeroNotTimedOut ==
    \A w \in WorkerIds :
       LET it == workers[w].it IN
       (/\ it.handled /\ it.t = 0 /\ it.r \in 0..9
        /\ it.res.ExitStatus = 0 /\ ~it.res.TimedOut) =>
          it.ops = <<QueueOp("delete", 0)>>

\* an execution in time with exit status 0, its job deleted
C6_Witness ==
    \E w \in WorkerIds :
       /\ workers[w].it.handled
       /\ workers[w].it.res.ExitStatus = 0
       /\ ~workers[w].it.res.TimedOut
       /\ workers[w].it.ops = <<QueueOp("delete", 0)>>
       /\ jobs[workers[w].it.job].state = "deleted"

\* r^4 strictly increases with r over 0 <= r < 10
BackoffIncreases ==
    \A a \in 0..9, b \in 0..9 : a < b => BackoffDelay(a) < BackoffDelay(b)

C8_NoQueueOpOnTimeout ==
    [][\A w \in WorkerIds :
          (/\ workers[w].pc = "handle"
           /\ workers[w].it.res.TimedOut
           /\ workers'[w].pc # "handle") =>
             /\ jobs' = jobs
             /\ workers'[w].it.ops = <<>>
             /\ workers'[w].pc = "tick"]_vars

\* a timed out execution with exit status 0 was handled: nothing was
\* issued and the job is still reserved by the worker
C8_Witness ==
    \E w \in WorkerIds :
       /\ workers[w].it.handled
       /\ workers[w].it.res.TimedOut
       /\ workers[w].it.res.ExitStatus = 0
       /\ workers[w].it.ops = <<>>
       /\ jobs[workers[w].it.job].state = "reserved"
       /\ jobs[workers[w].it.job].owner = w

\* the second in which the executor had finished: its output closed and its
\* exit status delivered
FinishedAt(it) == IF it.outAt > it.exitAt THEN it.outAt ELSE it.exitAt

\* C9: with d the time left of the job, an executor that runs longer than
\* d + ttrMargin is terminated and its result has TimedOut = true; one that
\* finishes within d + ttrMargin is never terminated and its result has
\* TimedOut = false.
C9_DeadlineEnforced ==
    \A w \in WorkerIds :
       LET it == workers[w].it IN
       workers[w].pc = "handle" =>
          /\ FinishedAt(it) > it.ttr + ttrMargin =>
                it.res.TimedOut /\ it.terms >= 1
          /\ FinishedAt(it) < it.ttr + ttrMargin =>
                ~it.res.TimedOut /\ it.terms = 0

\* an executor that ran a second longer than d + ttrMargin was terminated
C9_Witness ==
    \E w \in WorkerIds :
       /\ workers[w].pc = "handle"
       /\ FinishedAt(workers[w].it) > workers[w].it.ttr + ttrMargin
       /\ workers[w].it.res.TimedOut
       /\ workers[w].it.terms = 1

\* C10: a job is executed at most ReleaseTries = 10 times, each release with
\* backoff follows a count below 10, and once its releases have reached 10
\* no reservation of it leads to an execution.
C10_RetriesBounded ==
    /\ [](\A j \in JobIds : execCount[j] <= 10)
    /\ [](\A w \in WorkerIds :
            workers[w].it.res.Executed => workers[w].it.r \in 0..9)
    /\ [][\A j \in JobIds :
            jobs[j].releases >= 10 => execCount'[j] = execCount[j]]_vars

\* a job that failed ten times and never timed out was reserved once more
\* and released with the requeue delay, unexecuted
C10_Witness ==
    \E w \in WorkerIds :
       /\ workers[w].pc = "tick"
       /\ workers[w].it.t = 0
       /\ workers[w].it.r = 10
       /\ workers[w].it.ops = <<QueueOp("release", RequeueDelay)>>
       /\ execCount[workers[w].it.job] = 10
       /\ jobs[workers[w].it.job].timeouts = 0
       /\ jobs[workers[w].it.job].releases = 11

\* the payload is a map whose domain is the string cluster in some case
ClusterBody(b) ==
    /\ b.kind = "map"
    /\ b.domain = "string"
    /\ b.val \in {"cluster", "Cluster", "CLUSTER"}

\* the payload is a map whose domain is another string
InstanceBody(b) ==
    /\ b.kind = "map"
    /\ b.domain = "string"
    /\ b.val \notin {"cluster", "Cluster", "CLUSTER"}

\* C11: a payload whose domain is cluster in any letter case resolves to
\* the cluster working directory, any other string domain X to
\* InstanceRoot/X/worker; a payload without a domain key, with a domain
\* that is no string, or that is no map yields an error, and then the
\* executor is never invoked and no delete or release is issued.
C11_RoutingResolution ==
    /\ \A j \in JobIds :
          LET b == jobs[j].body
              wd == getJobWD(b) IN
          /\ ClusterBody(b) =>
                ~wd.err /\ wd.wd = <<"ClusterRoot", "worker">>
          /\ InstanceBody(b) =>
                ~wd.err /\ wd.wd = <<"InstanceRoot", b.val, "worker">>
          /\ ~ClusterBody(b) /\ ~InstanceBody(b) => wd.err /\ execCount[j] = 0
    /\ \A w \in WorkerIds :
          LET it == workers[w].it IN
          /\ it.res.Executed =>
                /\ ~getJobWD(jobs[it.job].body).err
                /\ it.wd = getJobWD(jobs[it.job].body).wd
          /\ it.err = "getJobWD" =>
                /\ getJobWD(jobs[it.job].body).err
                /\ it.ops = <<>>
                /\ ~it.res.made

\* the payload of a reserved job had no domain that is a string: the job
\* was not executed and is still reserved
C11_Witness ==
    \E w \in WorkerIds :
       /\ workers[w].it.err = "getJobWD"
       /\ workers[w].it.t = 0
       /\ workers[w].it.r = 0
       /\ jobs[workers[w].it.job].body.kind = "map"
       /\ jobs[workers[w].it.job].body.domain = "number"
       /\ jobs[workers[w].it.job].state = "reserved"
       /\ execCount[workers[w].it.job] = 0

\* C13: a reserve error that is neither the timeout nor the deadline-soon
\* condition is fatal to the calling worker, which is Stopped instead of
\* reserving on.
C13_ReserveErrorIsFatal ==
    \A w \in WorkerIds :
       workers[w].it.rerr = "other" => workers[w].pc = "stopped"

\* C14: an executor infrastructure error is fatal to the job attempt only:
\* it is recorded in the JobResult's Error field and the worker goes on to
\* its next iteration.
C14_ExecutorErrorNotFatal ==
    \A w \in WorkerIds :
       workers[w].it.err = "executeJob" =>
          /\ workers[w].pc # "stopped"
          /\ workers[w].it.res.Error

\* C15: a payload decode error is fatal to the job attempt only: the worker
\* that reserved the job keeps running, so that the malformed job does not
\* reduce the live workers of its tube.
C15_DecodeErrorNotFatal ==
    \A w \in WorkerIds :
       workers[w].it.err = "getJobWD" =>
          /\ workers[w].pc # "stopped"
          /\ wg >= 1

\* C17: the wait for the exit status has its own deadline: whenever the
\* output is drained and the exit status is outstanding, the deadline is
\* still to fire in the wait phase or has fired in it and the process was
\* terminated there, also when it had fired during the drain phase.
C17_WaitPhaseDeadline ==
    \A w \in WorkerIds :
       (workers[w].pc = "wait" /\ workers[w].it.proc = "running") =>
          \/ workers[w].it.timer \in {"armed", "fired"}
          \/ workers[w].it.termAt = "wait"

\* a release with backoff followed an execution that was not TimedOut and
\* ended with a non-zero exit status
BackedOff(it) ==
    /\ it.handled
    /\ ~it.res.TimedOut
    /\ it.res.ExitStatus # 0

\* C18, as stated: for the largest release count at which a job is still
\* executed a non-zero exit produces Release with delay 10^4 s, and when
\* the query of the release count fails in handleResult the delay is
\* 10^4 s, never zero.
C18_FinalRetryDelay ==
    \A w \in WorkerIds :
       LET it == workers[w].it IN
       BackedOff(it) =>
          /\ it.r = 9 => it.ops = <<QueueOp("release", 10000)>>
          /\ it.hr = -1 => it.ops = <<QueueOp("release", 10000)>>

\* C18, amended: for the largest release count at which a job is still
\* executed, 9, a non-zero exit produces Release with delay 9^4 = 6561 s
\* when the query in handleResult answers that count; when the query fails
\* the delay is 10^4 s, never zero.
C18_FinalRetryDelayAnswered ==
    \A w \in WorkerIds :
       LET it == workers[w].it IN
       /\ it.res.Executed => it.r <= 9
       /\ BackedOff(it) =>
             /\ (it.r = 9 /\ it.hr = 9) => it.ops = <<QueueOp("release", 6561)>>
             /\ it.hr = -1 => it.ops = <<QueueOp("release", 10000)>>

\* the tenth execution of a job failed: the job was released with a delay
\* of 6561 s
C18_Witness ==
    \E w \in WorkerIds :
       /\ BackedOff(workers[w].it)
       /\ workers[w].it.r = 9
       /\ workers[w].it.hr = 9
       /\ workers[w].it.ops = <<QueueOp("release", 6561)>>
       /\ execCount[workers[w].it.job] = 10
       /\ jobs[workers[w].it.job].releases = 10

====
